---- MODULE Spec2Model ----
(***************************************************************************)
(* Basic Talker: the App component (session controller, playback           *)
(* sequencing and transcript assembly) as a state machine.  Every callback *)
(* of the component is one action; an async function is one action per     *)
(* stretch between two awaits.                                             *)
(***************************************************************************)
EXTENDS Integers, Sequences, FiniteSets, TLC

\* ------------------------------------------------------------- bounds
\* startSession invocations over the page lifetime: of the session controller
\* alone, with few inbound messages, and to exercise stopSession
MaxSessions == 3
MaxLifeSessions == 2
MaxStopSessions == 1
\* inbound messages over the page lifetime
MaxMsgs == 3
MaxLifeMsgs == 2
MaxTurnMsgs == 2
MaxStopMsgs == 1
MaxPlayMsgs == 3
\* characters held by one field of the transcription buffer
MaxText == 2
\* captured frames waiting for the session promise
MaxQueued == 1
\* readings of the output device clock and of the wall clock
MaxClock == 1
MaxWall == 1

Sessions == 1..MaxSessions
NoSession == 0

\* ------------------------------------------------------------- types.ts
DISCONNECTED == "DISCONNECTED"
CONNECTING == "CONNECTING"
CONNECTED == "CONNECTED"
ERROR == "ERROR"
SessionStatus == {DISCONNECTED, CONNECTING, CONNECTED, ERROR}

\* The texts setError is given.
NoError == "null"
ConnectionErrorMsg == "A connection error occurred. Please try again."
StartErrorDefault == "Could not access microphone or start AI session."
\* err.message of the failures startSession can catch; the empty message
\* makes `err.message || default` take the default.
ErrMessages == {"", "NotAllowedError"}

\* Text is a sequence of characters; " " is the white space trim() removes.
Chars == {"a", "b", " "}
Fragments == {<<c>> : c \in Chars}
NoText == <<>>
Durations == {1, 2}
\* decodeAudioData settles with a buffer (TRUE) or fails (FALSE).
DecodeOutcomes == {TRUE, FALSE}

VARIABLES
  \* React state of App
  status, isModelTalking, transcript, error,
  \* refs of App
  audioContexts, nextStartTime, audioSources, sessionRef, transcriptionBuffer,
  \* window._audioCleanup: the session whose closure it holds, or NoSession
  audioCleanup,
  \* the component is mounted
  mounted,
  \* per startSession invocation: where the async function is, the remote
  \* session (socket) state, whether close() was called on its handle, its
  \* microphone stream, how often its tracks were stopped, its capture
  \* pipeline (source node and script processor), frames waiting for the
  \* session promise
  pc, remote, closed, stream, releases, pipeline, queued, nStarts,
  \* onmessage invocations suspended at `await decodeAudioData`
  pending, nMsgs,
  \* every AudioBufferSourceNode created: its state, start time and duration
  sources,
  \* outputCtx.currentTime and Date.now()
  outClock, wallClock,
  \* history: the handler that ran last and its session, the number of calls
  \* of stopSession in a row that ended with it (up to two), and whether an
  \* exception escaped from stopSession
  lastOp, lastSess, stops, threw,
  \* history of the turns: the fragments buffered since the last
  \* turn-complete signal, the fragments buffered at that signal, and the
  \* number of turn-complete signals whose handler has ended
  turns

vars == <<status, isModelTalking, transcript, error, audioContexts,
          nextStartTime, audioSources, sessionRef, transcriptionBuffer,
          audioCleanup, mounted, pc, remote, closed, stream, releases,
          pipeline, queued, nStarts, pending, nMsgs, sources, outClock,
          wallClock, lastOp, lastSess, stops, threw, turns>>


Max(a, b) == IF a >= b THEN a ELSE b

NoTurns ==
  [ heard |-> [user |-> <<>>, model |-> <<>>],
    flushed |-> [user |-> <<>>, model |-> <<>>],
    ended |-> 0 ]

\* ------------------------------------------------------------- Init
Init ==
  /\ status = DISCONNECTED
  /\ isModelTalking = FALSE
  /\ transcript = <<>>
  /\ error = NoError
  /\ audioContexts = FALSE
  /\ nextStartTime = 0
  /\ audioSources = {}
  /\ sessionRef = NoSession
  /\ transcriptionBuffer = [user |-> <<>>, model |-> <<>>]
  /\ audioCleanup = NoSession
  /\ mounted = TRUE
  /\ pc = [k \in Sessions |-> "idle"]
  /\ remote = [k \in Sessions |-> "none"]
  /\ closed = [k \in Sessions |-> FALSE]
  /\ stream = [k \in Sessions |-> "none"]
  /\ releases = [k \in Sessions |-> 0]
  /\ pipeline = [k \in Sessions |-> "none"]
  /\ queued = [k \in Sessions |-> 0]
  /\ nStarts = 0
  /\ pending = <<>>
  /\ nMsgs = 0
  /\ sources = <<>>
  /\ outClock = 0
  /\ wallClock = 0
  /\ lastOp = "init"
  /\ lastSess = NoSession
  /\ stops = 0
  /\ threw = FALSE
  /\ turns = NoTurns

\* ------------------------------------------------------------- stopSession
\* History of the suspended handlers: an interruption or stopSession that
\* runs while a handler awaits its decode marks it ("interrupted",
\* "stopped"), with the device clock.
Cut(q, by) ==
  [i \in 1..Len(q) |-> [q[i] EXCEPT !.cut = by, !.cutAt = outClock]]

\* source.stop() on every node of a set: a node that was never started
\* throws InvalidStateError; a started node is stopped and will fire onended.
StopAll(set) ==
  [i \in 1..Len(sources) |->
     IF i \in set /\ sources[i].state = "started"
       THEN [sources[i] EXCEPT !.state = "stopped"]
       ELSE sources[i]]

StopThrows(set) == \E i \in set : sources[i].state = "created"

\* stopSession without line 43: the handle is closed and kept.
stopSession_KeepsHandle ==
  [ sessionRef |-> sessionRef,
    closed |-> IF sessionRef # NoSession
                 THEN [closed EXCEPT ![sessionRef] = TRUE] ELSE closed,
    remote |-> IF sessionRef # NoSession /\ remote[sessionRef] = "open"
                 THEN [remote EXCEPT ![sessionRef] = "closing"] ELSE remote,
    sources |-> StopAll(audioSources),
    audioSources |-> {},
    status |-> DISCONNECTED,
    isModelTalking |-> FALSE,
    threw |-> StopThrows(audioSources),
    pending |-> Cut(pending, "stopped") ]

\* stopSession: the values it leaves in the variables it writes.
stopSession ==
  [ sessionRef |-> NoSession,
    closed |-> IF sessionRef # NoSession
                 THEN [closed EXCEPT ![sessionRef] = TRUE] ELSE closed,
    remote |-> IF sessionRef # NoSession /\ remote[sessionRef] = "open"
                 THEN [remote EXCEPT ![sessionRef] = "closing"] ELSE remote,
    sources |-> StopAll(audioSources),
    audioSources |-> {},
    status |-> DISCONNECTED,
    isModelTalking |-> FALSE,
    threw |-> StopThrows(audioSources),
    pending |-> Cut(pending, "stopped") ]

\* ------------------------------------------------------------- startSession
\* The button starts a session when the status is DISCONNECTED.  The part of
\* startSession up to the first await: setStatus, setError, and initAudio's
\* construction of the two contexts, which may throw.
startSession(k, created) ==
  /\ status' = CONNECTING
  /\ error' = NoError
  /\ audioContexts' = (audioContexts \/ created)
  /\ pc' = [pc EXCEPT ![k] = IF audioContexts \/ created
                               THEN "initAudio" ELSE "initAudioThrew"]
  /\ nStarts' = k
  /\ lastOp' = "start"
  /\ stops' = 0
  /\ lastSess' = k
  /\ UNCHANGED <<isModelTalking, transcript, nextStartTime, audioSources,
                 sessionRef, transcriptionBuffer, audioCleanup, mounted,
                 remote, closed, stream, releases, pipeline, queued, pending,
                 nMsgs, sources, outClock, wallClock, threw, turns>>

ClickStart ==
  /\ mounted
  /\ status = DISCONNECTED
  /\ nStarts < MaxSessions
  /\ \E created \in BOOLEAN : startSession(nStarts + 1, created)

\* startSession called in a status other than DISCONNECTED: the function
\* reads no status and has no guard.
CallStart ==
  /\ mounted
  /\ status # DISCONNECTED
  /\ nStarts < MaxSessions
  /\ \E created \in BOOLEAN : startSession(nStarts + 1, created)

\* The catch block of startSession.
StartCatch(k, msg) ==
  /\ error' = (IF msg = "" THEN StartErrorDefault ELSE msg)
  /\ status' = DISCONNECTED
  /\ pc' = [pc EXCEPT ![k] = "failed"]
  /\ lastOp' = "catch"
  /\ stops' = 0
  /\ lastSess' = k

\* `await initAudio()` settles: the contexts are running, or construction or
\* resume() failed.  On success getUserMedia is requested.
InitAudioSettle(k) ==
  /\ mounted
  /\ pc[k] \in {"initAudio", "initAudioThrew"}
  /\ \/ /\ pc[k] = "initAudio"
        /\ pc' = [pc EXCEPT ![k] = "getUserMedia"]
        /\ lastOp' = "initAudio"
        /\ stops' = 0
        /\ lastSess' = k
        /\ UNCHANGED <<status, error>>
     \/ \E msg \in ErrMessages : StartCatch(k, msg)
  /\ UNCHANGED <<isModelTalking, transcript, audioContexts, nextStartTime,
                 audioSources, sessionRef, transcriptionBuffer, audioCleanup,
                 mounted, remote, closed, stream, releases, pipeline, queued,
                 nStarts, pending, nMsgs, sources, outClock, wallClock, threw, turns>>

\* `await getUserMedia` settles: a stream is captured and ai.live.connect is
\* called, or the permission is refused.
GetUserMediaSettle(k) ==
  /\ mounted
  /\ pc[k] = "getUserMedia"
  /\ \/ /\ stream' = [stream EXCEPT ![k] = "live"]
        /\ remote' = [remote EXCEPT ![k] = "requested"]
        /\ pc' = [pc EXCEPT ![k] = "connect"]
        /\ lastOp' = "getUserMedia"
        /\ stops' = 0
        /\ lastSess' = k
        /\ UNCHANGED <<status, error>>
     \/ /\ \E msg \in ErrMessages : StartCatch(k, msg)
        /\ UNCHANGED <<stream, remote>>
  /\ UNCHANGED <<isModelTalking, transcript, audioContexts, nextStartTime,
                 audioSources, sessionRef, transcriptionBuffer, audioCleanup,
                 mounted, closed, releases, pipeline, queued, nStarts,
                 pending, nMsgs, sources, outClock, wallClock, threw, turns>>

\* The session promise rejects: the remote session could not be opened.
ConnectReject(k) ==
  /\ mounted
  /\ pc[k] = "connect"
  /\ remote[k] = "requested"
  /\ \E msg \in ErrMessages : StartCatch(k, msg)
  /\ remote' = [remote EXCEPT ![k] = "failed"]
  /\ UNCHANGED <<isModelTalking, transcript, audioContexts, nextStartTime,
                 audioSources, sessionRef, transcriptionBuffer, audioCleanup,
                 mounted, closed, stream, releases, pipeline, queued, nStarts,
                 pending, nMsgs, sources, outClock, wallClock, threw, turns>>

\* The session promise resolves, after the remote session opened:
\* sessionRef.current is assigned, and the frames captured meanwhile, which
\* wait on the promise, are sent.
ConnectResolve(k) ==
  /\ mounted
  /\ pc[k] = "connect"
  /\ pipeline[k] # "none"
  /\ sessionRef' = k
  /\ pc' = [pc EXCEPT ![k] = "done"]
  /\ queued' = [queued EXCEPT ![k] = 0]
  /\ lastOp' = IF queued[k] > 0 THEN "sendQueued" ELSE "resolve"
  /\ stops' = 0
  /\ lastSess' = k
  /\ UNCHANGED <<status, isModelTalking, transcript, error, audioContexts,
                 nextStartTime, audioSources, transcriptionBuffer,
                 audioCleanup, mounted, remote, closed, stream, releases,
                 pipeline, nStarts, pending, nMsgs, sources, outClock,
                 wallClock, threw, turns>>

\* ------------------------------------------------------------- callbacks
\* onopen: setStatus(CONNECTED), the capture pipeline is built on the
\* session's stream and window._audioCleanup is overwritten.
onopen(k) ==
  /\ mounted
  /\ remote[k] = "requested"
  /\ remote' = [remote EXCEPT ![k] = "open"]
  /\ status' = CONNECTED
  /\ pipeline' = [pipeline EXCEPT ![k] = "connected"]
  /\ audioCleanup' = k
  /\ lastOp' = "onopen"
  /\ stops' = 0
  /\ lastSess' = k
  /\ UNCHANGED <<isModelTalking, transcript, error, audioContexts,
                 nextStartTime, audioSources, sessionRef, transcriptionBuffer,
                 mounted, pc, closed, stream, releases, queued, nStarts,
                 pending, nMsgs, sources, outClock, wallClock, threw, turns>>

\* scriptProcessor.onaudioprocess: the frame is sent once the session
\* promise has resolved, whatever the status.
onaudioprocess(k) ==
  /\ mounted
  /\ pipeline[k] = "connected"
  /\ \/ /\ pc[k] = "done"
        /\ lastOp' = "send"
        /\ stops' = 0
        /\ UNCHANGED queued
     \/ /\ pc[k] = "connect"
        /\ queued[k] < MaxQueued
        /\ queued' = [queued EXCEPT ![k] = @ + 1]
        /\ lastOp' = "capture"
        /\ stops' = 0
  /\ lastSess' = k
  /\ UNCHANGED <<status, isModelTalking, transcript, error, audioContexts,
                 nextStartTime, audioSources, sessionRef, transcriptionBuffer,
                 audioCleanup, mounted, pc, remote, closed, stream, releases,
                 pipeline, nStarts, pending, nMsgs, sources, outClock,
                 wallClock, threw, turns>>

\* A call of stopSession from the component, op naming the caller.
StopCall(op) ==
  /\ sessionRef' = stopSession.sessionRef
  /\ closed' = stopSession.closed
  /\ remote' = stopSession.remote
  /\ sources' = stopSession.sources
  /\ audioSources' = stopSession.audioSources
  /\ status' = stopSession.status
  /\ isModelTalking' = stopSession.isModelTalking
  /\ threw' = stopSession.threw
  /\ pending' = stopSession.pending
  /\ lastOp' = op
  /\ stops' = IF stops < 2 THEN stops + 1 ELSE 2
  /\ lastSess' = sessionRef
  /\ UNCHANGED <<transcript, error, audioContexts, nextStartTime,
                 transcriptionBuffer, audioCleanup, mounted, pc, stream,
                 releases, pipeline, queued, nStarts, nMsgs,
                 outClock, wallClock, turns>>

\* The button stops the session when the status is CONNECTED.
ClickStop ==
  /\ mounted
  /\ status = CONNECTED
  /\ StopCall("stop")

\* stopSession called in any status: the function has no guard.
CallStop ==
  /\ mounted
  /\ StopCall("callStop")

\* onerror: the remote session of invocation k signals an error, while it is
\* being opened or while it is open: setError, then stopSession.
onerror(k) ==
  /\ mounted
  /\ remote[k] \in {"requested", "open"}
  /\ error' = ConnectionErrorMsg
  /\ sessionRef' = stopSession.sessionRef
  /\ closed' = stopSession.closed
  /\ remote' = [stopSession.remote EXCEPT ![k] = "errored"]
  /\ sources' = stopSession.sources
  /\ audioSources' = stopSession.audioSources
  /\ status' = stopSession.status
  /\ isModelTalking' = stopSession.isModelTalking
  /\ threw' = stopSession.threw
  /\ pending' = stopSession.pending
  /\ lastOp' = "onerror"
  /\ stops' = IF stops < 2 THEN stops + 1 ELSE 2
  /\ lastSess' = k
  /\ UNCHANGED <<transcript, audioContexts, nextStartTime,
                 transcriptionBuffer, audioCleanup, mounted, pc, stream,
                 releases, pipeline, queued, nStarts, nMsgs,
                 outClock, wallClock, turns>>

\* onclose: the remote session of invocation k is closed, by the remote end,
\* after an error, or after close() on its handle.
onclose(k) ==
  /\ mounted
  /\ remote[k] \in {"open", "closing", "errored"}
  /\ remote' = [remote EXCEPT ![k] = "closed"]
  /\ status' = DISCONNECTED
  /\ lastOp' = "onclose"
  /\ stops' = 0
  /\ lastSess' = k
  /\ UNCHANGED <<isModelTalking, transcript, error, audioContexts,
                 nextStartTime, audioSources, sessionRef, transcriptionBuffer,
                 audioCleanup, mounted, pc, closed, stream, releases,
                 pipeline, queued, nStarts, pending, nMsgs, sources, outClock,
                 wallClock, threw, turns>>

\* window._audioCleanup(): the pipeline and the stream of the session whose
\* onopen stored it last.
CleanupPipeline == IF audioCleanup = NoSession THEN pipeline
                   ELSE [pipeline EXCEPT ![audioCleanup] = "disconnected"]
CleanupStream == IF audioCleanup = NoSession THEN stream
                 ELSE [stream EXCEPT ![audioCleanup] = "stopped"]
CleanupReleases == IF audioCleanup = NoSession THEN releases
                   ELSE [releases EXCEPT ![audioCleanup] = @ + 1]

\* The effect cleanup on unmount: stopSession, then window._audioCleanup.
Unmount ==
  /\ mounted
  /\ mounted' = FALSE
  /\ sessionRef' = stopSession.sessionRef
  /\ closed' = stopSession.closed
  /\ remote' = stopSession.remote
  /\ sources' = stopSession.sources
  /\ audioSources' = stopSession.audioSources
  /\ status' = stopSession.status
  /\ isModelTalking' = stopSession.isModelTalking
  /\ threw' = stopSession.threw
  /\ pending' = stopSession.pending
  /\ pipeline' = CleanupPipeline
  /\ stream' = CleanupStream
  /\ releases' = CleanupReleases
  /\ lastOp' = "unmount"
  /\ stops' = IF stops < 2 THEN stops + 1 ELSE 2
  /\ lastSess' = sessionRef
  /\ UNCHANGED <<transcript, error, audioContexts, nextStartTime,
                 transcriptionBuffer, audioCleanup, pc, queued, nStarts,
                 nMsgs, outClock, wallClock, turns>>

\* ------------------------------------------------------------- onmessage
\* String.prototype.trim on a text.
RECURSIVE TrimStart(_)
TrimStart(t) ==
  IF t = <<>> THEN t
  ELSE IF Head(t) = " " THEN TrimStart(Tail(t)) ELSE t

RECURSIVE TrimEnd(_)
TrimEnd(t) ==
  IF t = <<>> THEN t
  ELSE IF t[Len(t)] = " " THEN TrimEnd(SubSeq(t, 1, Len(t) - 1)) ELSE t

Trim(t) == TrimEnd(TrimStart(t))

\* What the message handler reads and writes, as one record.
Refs ==
  [ isModelTalking |-> isModelTalking, nextStartTime |-> nextStartTime,
    audioSources |-> audioSources, sources |-> sources,
    buffer |-> transcriptionBuffer, transcript |-> transcript,
    wallClock |-> wallClock ]

\* The inbound messages: an audio payload or none, the interrupted flag, an
\* input and an output transcription fragment (NoText when absent) and the
\* turnComplete flag.
Messages ==
  [ audio : BOOLEAN, interrupted : BOOLEAN, inputTranscription : Fragments \cup {NoText},
    outputTranscription : Fragments \cup {NoText}, turnComplete : BOOLEAN ]

\* Enqueue without line 108: the cursor is not advanced.
Enqueue_NoAdvance(r, k, d) ==
  [ r EXCEPT
      !.sources = Append(r.sources,
                         [state |-> "started", start |-> r.nextStartTime,
                          dur |-> d, sess |-> k]),
      !.audioSources = r.audioSources \cup {Len(r.sources) + 1} ]

\* Lines 98-109: the decoded buffer of duration d becomes a source node of
\* session k, started at the cursor, the cursor advances and the node joins
\* audioSources.
Enqueue(r, k, d) ==
  [ r EXCEPT
      !.sources = Append(r.sources,
                         [state |-> "started", start |-> r.nextStartTime,
                          dur |-> d, sess |-> k]),
      !.nextStartTime = r.nextStartTime + d,
      !.audioSources = r.audioSources \cup {Len(r.sources) + 1} ]

\* Interrupt without line 116: the cursor is kept.
Interrupt_KeepsCursor(r) ==
  [ r EXCEPT
      !.sources = [i \in 1..Len(r.sources) |->
                     IF i \in r.audioSources /\ r.sources[i].state = "started"
                       THEN [r.sources[i] EXCEPT !.state = "stopped"]
                       ELSE r.sources[i]],
      !.audioSources = {},
      !.isModelTalking = FALSE ]

\* Lines 113-118: the interruption.
Interrupt(r) ==
  [ r EXCEPT
      !.sources = [i \in 1..Len(r.sources) |->
                     IF i \in r.audioSources /\ r.sources[i].state = "started"
                       THEN [r.sources[i] EXCEPT !.state = "stopped"]
                       ELSE r.sources[i]],
      !.audioSources = {},
      !.nextStartTime = 0,
      !.isModelTalking = FALSE ]

\* Lines 121-126: a fragment is appended to its speaker's field.
AppendUser(r, text) == [r EXCEPT !.buffer.user = r.buffer.user \o text]
AppendModel(r, text) == [r EXCEPT !.buffer.model = r.buffer.model \o text]

\* Lines 133-137: the entries of one flush; t1 and t2 are the two readings of
\* Date.now().
Entries(userText, modelText, t1, t2) ==
  (IF userText # <<>>
     THEN <<[type |-> "user", text |-> userText, timestamp |-> t1]>>
     ELSE <<>>)
  \o (IF modelText # <<>>
        THEN <<[type |-> "model", text |-> modelText, timestamp |-> t2 + 1]>>
        ELSE <<>>)

\* Lines 128-141: the turn-complete flush.
Flush(r, t1, t2) ==
  LET userText == Trim(r.buffer.user)
      modelText == Trim(r.buffer.model)
  IN [ r EXCEPT
         !.transcript = r.transcript \o Entries(userText, modelText, t1, t2),
         !.wallClock = IF modelText # <<>> THEN t2
                       ELSE IF userText # <<>> THEN t1 ELSE r.wallClock,
         !.buffer = [user |-> <<>>, model |-> <<>>] ]

\* Lines 112-141: what the handler does after the audio part.
AfterAudio(r, m, t1, t2) ==
  LET r1 == IF m.interrupted THEN Interrupt(r) ELSE r
      r2 == IF m.inputTranscription # NoText
              THEN AppendUser(r1, m.inputTranscription) ELSE r1
      r3 == IF m.outputTranscription # NoText
              THEN AppendModel(r2, m.outputTranscription) ELSE r2
  IN IF m.turnComplete THEN Flush(r3, t1, t2) ELSE r3

\* The handler's writes, from the record it computed.
Store(r) ==
  /\ isModelTalking' = r.isModelTalking
  /\ nextStartTime' = r.nextStartTime
  /\ audioSources' = r.audioSources
  /\ sources' = r.sources
  /\ transcriptionBuffer' = r.buffer
  /\ transcript' = r.transcript
  /\ wallClock' = r.wallClock

\* The readings of Date.now() a flush may make.
Readings == {t \in (0..MaxWall) \X (0..MaxWall) : wallClock <= t[1] /\ t[1] <= t[2]}

RECURSIVE SumLen(_, _)
SumLen(q, f) == IF q = <<>> THEN 0 ELSE Len(Head(q).msg[f]) + SumLen(Tail(q), f)

\* The characters a field will hold once every suspended handler has run.
Incoming(f) ==
  SumLen(pending, IF f = "user" THEN "inputTranscription" ELSE "outputTranscription")

\* The history of the turns when the handler of message m has ended: having
\* buffered the fragments of m, or (on a decode failure) without them.
Handled(t, m, buffered) ==
  LET h == IF buffered
             THEN [user |-> t.heard.user \o m.inputTranscription,
                   model |-> t.heard.model \o m.outputTranscription]
             ELSE t.heard
  IN IF m.turnComplete
       THEN [t EXCEPT !.heard = [user |-> <<>>, model |-> <<>>],
                      !.flushed = h, !.ended = @ + 1]
       ELSE [t EXCEPT !.heard = h]

\* onmessage of session k, up to its first await or to its end: with an audio
\* payload it marks the agent speaking, raises the cursor to the device clock
\* and suspends at `await decodeAudioData`; without one it runs to its end.
onmessage(k, m) ==
  /\ mounted
  /\ remote[k] = "open"
  /\ nMsgs < MaxMsgs
  /\ Len(transcriptionBuffer.user) + Incoming("user") + Len(m.inputTranscription) <= MaxText
  /\ Len(transcriptionBuffer.model) + Incoming("model") + Len(m.outputTranscription) <= MaxText
  /\ nMsgs' = nMsgs + 1
  /\ \/ /\ m.audio
        /\ pending' = Append(pending, [sess |-> k, msg |-> m, cut |-> "none", cutAt |-> 0])
        /\ UNCHANGED turns
        /\ Store([Refs EXCEPT !.isModelTalking = TRUE,
                              !.nextStartTime = Max(nextStartTime, outClock)])
     \/ /\ ~m.audio
        /\ \E t \in Readings : Store(AfterAudio(Refs, m, t[1], t[2]))
        /\ turns' = Handled(turns, m, TRUE)
        /\ pending' = IF m.interrupted THEN Cut(pending, "interrupted")
                                         ELSE pending
  /\ lastOp' = "onmessage"
  /\ stops' = 0
  /\ lastSess' = k
  /\ UNCHANGED <<status, error, audioContexts, sessionRef, audioCleanup,
                 mounted, pc, remote, closed, stream, releases, pipeline,
                 queued, nStarts, outClock, threw>>

Without(q, i) == SubSeq(q, 1, i - 1) \o SubSeq(q, i + 1, Len(q))

\* DecodeSettle with a catch that schedules a buffer all the same.
DecodeSettle_NoSkip(i, ok, d) ==
  /\ mounted
  /\ i \in 1..Len(pending)
  /\ pending' = IF ok /\ pending[i].msg.interrupted
                  THEN Cut(Without(pending, i), "interrupted")
                  ELSE Without(pending, i)
  /\ \/ /\ ok
        /\ \E t \in Readings :
             Store(AfterAudio(Enqueue(Refs, pending[i].sess, d),
                              pending[i].msg, t[1], t[2]))
        /\ turns' = Handled(turns, pending[i].msg, TRUE)
        /\ lastOp' = "decoded"
        /\ stops' = 0
     \/ /\ ~ok
        /\ Store(Enqueue(Refs, pending[i].sess, d))
        /\ turns' = Handled(turns, pending[i].msg, FALSE)
        /\ lastOp' = "decodeFailed"
        /\ stops' = 0
  /\ lastSess' = pending[i].sess
  /\ UNCHANGED <<status, error, audioContexts, sessionRef, audioCleanup,
                 mounted, pc, remote, closed, stream, releases, pipeline,
                 queued, nStarts, nMsgs, outClock, threw>>

\* `await decodeAudioData` of the i-th suspended handler settles: with a
\* buffer of duration d the handler enqueues it and runs to its end; with a
\* failure the handler ends there, the rest of its message unhandled.
DecodeSettle(i, ok, d) ==
  /\ mounted
  /\ i \in 1..Len(pending)
  /\ pending' = IF ok /\ pending[i].msg.interrupted
                  THEN Cut(Without(pending, i), "interrupted")
                  ELSE Without(pending, i)
  /\ \/ /\ ok
        /\ \E t \in Readings :
             Store(AfterAudio(Enqueue(Refs, pending[i].sess, d),
                              pending[i].msg, t[1], t[2]))
        /\ turns' = Handled(turns, pending[i].msg, TRUE)
        /\ lastOp' = "decoded"
        /\ stops' = 0
     \/ /\ ~ok
        /\ turns' = Handled(turns, pending[i].msg, FALSE)
        /\ lastOp' = "decodeFailed"
        /\ stops' = 0
        /\ UNCHANGED <<isModelTalking, nextStartTime, audioSources, sources,
                       transcriptionBuffer, transcript, wallClock>>
  /\ lastSess' = pending[i].sess
  /\ UNCHANGED <<status, error, audioContexts, sessionRef, audioCleanup,
                 mounted, pc, remote, closed, stream, releases, pipeline,
                 queued, nStarts, nMsgs, outClock, threw>>

\* source.onended of node i, fired after stop() or when the node has played
\* to its end: the node leaves audioSources, and the agent has finished
\* speaking when the set is empty.
onended(i) ==
  /\ mounted
  /\ i \in 1..Len(sources)
  /\ \/ sources[i].state = "stopped"
     \/ /\ sources[i].state = "started"
        /\ outClock >= sources[i].start + sources[i].dur
  /\ sources' = [sources EXCEPT ![i].state = "ended"]
  /\ audioSources' = audioSources \ {i}
  /\ isModelTalking' = IF audioSources \ {i} = {} THEN FALSE ELSE isModelTalking
  /\ lastOp' = "onended"
  /\ stops' = 0
  /\ lastSess' = sources[i].sess
  /\ UNCHANGED <<status, transcript, error, audioContexts, nextStartTime,
                 sessionRef, transcriptionBuffer, audioCleanup, mounted, pc,
                 remote, closed, stream, releases, pipeline, queued, nStarts,
                 pending, nMsgs, outClock, wallClock, threw, turns>>

\* The output device clock advances.
Tick ==
  /\ mounted
  /\ outClock < MaxClock
  /\ outClock' = outClock + 1
  /\ UNCHANGED <<status, isModelTalking, transcript, error, audioContexts,
                 nextStartTime, audioSources, sessionRef, transcriptionBuffer,
                 audioCleanup, mounted, pc, remote, closed, stream, releases,
                 pipeline, queued, nStarts, pending, nMsgs, sources,
                 wallClock, lastOp, lastSess, stops, threw, turns>>

\* ------------------------------------------------------------- specifications
\* The button, the teardown and the steps of startSession and of the remote
\* session, for at most maxS invocations of startSession.
Control(maxS) ==
  \/ nStarts < maxS /\ ClickStart
  \/ ClickStop
  \/ Unmount
  \/ \E k \in Sessions :
       \/ InitAudioSettle(k)
       \/ GetUserMediaSettle(k)
       \/ ConnectReject(k)
       \/ ConnectResolve(k)
       \/ onopen(k)
       \/ onerror(k)
       \/ onclose(k)

\* The same with the capture of microphone frames.
Lifecycle(maxS) ==
  \/ Control(maxS)
  \/ \E k \in Sessions : onaudioprocess(k)

\* The inbound messages drawn from msgs, at most maxM of them, their decoded
\* buffers with a duration of durs, and the playback of the buffers.
Inbound(msgs, maxM, durs) ==
  \/ \E k \in Sessions, m \in msgs : nMsgs < maxM /\ onmessage(k, m)
  \/ \E i \in 1..MaxMsgs :
       \/ \E ok \in DecodeOutcomes, d \in durs : DecodeSettle(i, ok, d)
       \/ onended(i)

\* Messages of one kind each: an audio payload alone, and a user fragment
\* with the turn-complete signal.
AudioOnly ==
  [ audio |-> TRUE, interrupted |-> FALSE, inputTranscription |-> NoText,
    outputTranscription |-> NoText, turnComplete |-> FALSE ]
UserTurn ==
  [ audio |-> FALSE, interrupted |-> FALSE, inputTranscription |-> <<"a">>,
    outputTranscription |-> NoText, turnComplete |-> TRUE ]
LifeMessages == {AudioOnly, UserTurn}

\* The session controller over several sessions, with few inbound messages.
Next ==
  \/ Lifecycle(MaxLifeSessions)
  \/ Inbound(LifeMessages, MaxLifeMsgs, {1})
  \/ Tick

Spec == Init /\ [][Next]_vars

\* The session controller alone, over more sessions.
NextStarts == Lifecycle(MaxSessions)

SpecStarts == Init /\ [][NextStarts]_vars

\* startSession called in every status.
NextDirect ==
  \/ Lifecycle(MaxLifeSessions)
  \/ nStarts < MaxLifeSessions /\ CallStart

SpecDirect == Init /\ [][NextDirect]_vars

\* stopSession in every state of a session with playback.
NextStop ==
  \/ Control(MaxStopSessions)
  \/ CallStop
  \/ Inbound(LifeMessages, MaxStopMsgs, {1})

SpecStop == Init /\ [][NextStop]_vars

\* The messages of a turn: with or without an audio payload, fragments of
\* either speaker that are a letter or white space, the turn-complete signal.
TurnMessages ==
  [ audio : BOOLEAN, interrupted : {FALSE},
    inputTranscription : {NoText, <<"a">>, <<" ">>},
    outputTranscription : {NoText, <<"b">>, <<" ">>}, turnComplete : BOOLEAN ]

\* A session opened by the button and connected: the state after ClickStart,
\* InitAudioSettle, GetUserMediaSettle, onopen and ConnectResolve.
InitConnected ==
  /\ status = CONNECTED
  /\ isModelTalking = FALSE
  /\ transcript = <<>>
  /\ error = NoError
  /\ audioContexts = TRUE
  /\ nextStartTime = 0
  /\ audioSources = {}
  /\ sessionRef = 1
  /\ transcriptionBuffer = [user |-> <<>>, model |-> <<>>]
  /\ audioCleanup = 1
  /\ mounted = TRUE
  /\ pc = [k \in Sessions |-> IF k = 1 THEN "done" ELSE "idle"]
  /\ remote = [k \in Sessions |-> IF k = 1 THEN "open" ELSE "none"]
  /\ closed = [k \in Sessions |-> FALSE]
  /\ stream = [k \in Sessions |-> IF k = 1 THEN "live" ELSE "none"]
  /\ releases = [k \in Sessions |-> 0]
  /\ pipeline = [k \in Sessions |-> IF k = 1 THEN "connected" ELSE "none"]
  /\ queued = [k \in Sessions |-> 0]
  /\ nStarts = 1
  /\ pending = <<>>
  /\ nMsgs = 0
  /\ sources = <<>>
  /\ outClock = 0
  /\ wallClock = 0
  /\ lastOp = "resolve"
  /\ lastSess = 1
  /\ stops = 0
  /\ threw = FALSE
  /\ turns = NoTurns

\* The message handler over the messages of a turn, in one connected session
\* until it is stopped or closed.
NextTurn ==
  \/ Inbound(TurnMessages, MaxTurnMsgs, {1})
  \/ ClickStop
  \/ \E k \in Sessions : onerror(k) \/ onclose(k)

SpecTurn == InitConnected /\ [][NextTurn]_vars

\* A connected session whose payloads may fail to decode.
NextDecode ==
  \/ Inbound(LifeMessages, MaxLifeMsgs, {1})
  \/ Tick
  \/ ClickStop
  \/ \E k \in Sessions : onclose(k)

SpecDecode == InitConnected /\ [][NextDecode]_vars

\* The messages of playback: with or without an audio payload, with or
\* without the interruption signal.
PlayMessages ==
  [ audio : BOOLEAN, interrupted : BOOLEAN, inputTranscription : {NoText},
    outputTranscription : {NoText}, turnComplete : {FALSE} ]

\* The playback of one connected session whose payloads all decode, until
\* the button stops it.
NextPlay ==
  \/ \E k \in Sessions, m \in PlayMessages :
       nMsgs < MaxPlayMsgs /\ onmessage(k, m)
  \/ \E i \in 1..MaxMsgs :
       \/ \E d \in Durations : DecodeSettle(i, TRUE, d)
       \/ onended(i)
  \/ Tick
  \/ ClickStop

SpecPlay == InitConnected /\ [][NextPlay]_vars

\* Messages with a fragment and no turn-complete signal, and with the signal
\* alone.
UserFragment ==
  [ audio |-> FALSE, interrupted |-> FALSE, inputTranscription |-> <<"a">>,
    outputTranscription |-> NoText, turnComplete |-> FALSE ]
TurnComplete ==
  [ audio |-> FALSE, interrupted |-> FALSE, inputTranscription |-> NoText,
    outputTranscription |-> NoText, turnComplete |-> TRUE ]

\* The turn buffer over several sessions.
NextBuffer ==
  \/ Control(MaxLifeSessions)
  \/ \E k \in Sessions, m \in {UserFragment, TurnComplete} :
       nMsgs < MaxLifeMsgs /\ onmessage(k, m)

SpecBuffer == Init /\ [][NextBuffer]_vars

\* ------------------------------------------------------------- properties
\* C1: the status changes only along Disconnected -> Connecting (start),
\* Connecting -> Connected (remote open), Connected -> Disconnected (stop,
\* remote close, remote error, teardown) and Connecting -> Disconnected (a
\* failure of start, a remote error, teardown); ERROR is never entered.
C1_StatusEdges ==
  [][ /\ status' # ERROR
      /\ status' # status =>
           \/ /\ status = DISCONNECTED /\ status' = CONNECTING
              /\ lastOp' = "start"
           \/ /\ status = CONNECTING /\ status' = CONNECTED
              /\ lastOp' = "onopen"
           \/ /\ status = CONNECTED /\ status' = DISCONNECTED
              /\ lastOp' \in {"stop", "onclose", "onerror", "unmount"}
           \/ /\ status = CONNECTING /\ status' = DISCONNECTED
              /\ lastOp' \in {"catch", "onerror", "unmount"} ]_vars

\* C2: a call of start while the status is not Disconnected fails at once:
\* it starts no invocation and leaves the status, the handle, the playback
\* set and the microphone as they were.
C2_StartWhileActive ==
  [][ (nStarts' # nStarts /\ status # DISCONNECTED) =>
        /\ pc' = pc
        /\ UNCHANGED <<status, error, sessionRef, audioSources, stream,
                       pipeline, remote>> ]_vars

\* C3: after stop on a connected session that holds its handle, the handle
\* is closed and cleared, every microphone stream is released and every
\* capture pipeline disconnected, and the status is Disconnected.
C3_StopReleases ==
  (lastOp = "stop" /\ lastSess # NoSession) =>
    /\ closed[lastSess]
    /\ sessionRef = NoSession
    /\ status = DISCONNECTED
    /\ \A k \in Sessions : stream[k] # "live" /\ pipeline[k] # "connected"

\* C4: stop in any state does not throw and leaves the status Disconnected,
\* the handle null, the playback set empty and the transcript as it was; a
\* second stop in a row changes nothing.
C4_StopIdempotent ==
  [][ stops' >= 1 =>
        /\ ~threw'
        /\ status' = DISCONNECTED
        /\ sessionRef' = NoSession
        /\ audioSources' = {}
        /\ transcript' = transcript
        /\ stops' = 2 =>
             UNCHANGED <<status, sessionRef, audioSources, transcript,
                         isModelTalking, closed, sources>> ]_vars

\* C4, its case: stop called twice in a row, the first on a session whose
\* handle it closed and with a buffer playing.
C4_Witness ==
  /\ stops = 2
  /\ lastOp = "callStop"
  /\ \E k \in Sessions : closed[k]
  /\ \E i \in 1..Len(sources) : sources[i].state = "stopped"

\* C5: when start begins, nothing of an earlier session is live: no handle is
\* held, no buffer is in the playback set, no earlier remote session is being
\* opened or open, no earlier microphone stream or pipeline is live.
C5_OneSession ==
  lastOp = "start" =>
    /\ sessionRef = NoSession
    /\ audioSources = {}
    /\ \A k \in Sessions :
         k < lastSess =>
           /\ remote[k] \notin {"requested", "open"}
           /\ stream[k] # "live"
           /\ pipeline[k] # "connected"

\* C6: a failure of start is caught with a non-null error and the status
\* Disconnected, and the step after it leaves the status Disconnected unless
\* it is the next start.
C6_StartFailure ==
  [][ /\ lastOp' = "catch" => (error' # NoError /\ status' = DISCONNECTED)
      /\ (lastOp = "catch" /\ status' # DISCONNECTED) => lastOp' = "start"
    ]_vars

\* C7: a remote error records the error and performs a full stop (handle
\* null, playback set empty, status Disconnected), and the handle of a
\* session whose error was signalled is not held while Disconnected.
C7_RemoteError ==
  /\ lastOp = "onerror" =>
       /\ error # NoError
       /\ sessionRef = NoSession
       /\ audioSources = {}
       /\ status = DISCONNECTED
  /\ \A k \in Sessions :
       (remote[k] = "errored" /\ status = DISCONNECTED) => sessionRef # k

\* The entries a flush is to append for the fragments f of the turn.
TurnEntries(f, added) ==
  LET u == Trim(f.user)
      m == Trim(f.model)
      n == (IF u # <<>> THEN 1 ELSE 0) + (IF m # <<>> THEN 1 ELSE 0)
  IN /\ Len(added) = n
     /\ u # <<>> => (added[1].type = "user" /\ added[1].text = u)
     /\ m # <<>> => (added[n].type = "model" /\ added[n].text = m)
     /\ n = 2 => added[1].timestamp < added[2].timestamp

\* C8: when the handler of a turn-complete signal has ended, the transcript
\* has grown by one entry per speaker whose trimmed buffered text is not
\* empty, the user's before the agent's with a smaller timestamp, and no
\* entry of the transcript has an empty text.
C8_TurnCompleteFlush ==
  [][ /\ turns'.ended # turns.ended =>
           TurnEntries(turns'.flushed,
                       SubSeq(transcript', Len(transcript) + 1,
                              Len(transcript')))
      /\ \A i \in 1..Len(transcript') : transcript'[i].text # <<>> ]_vars

\* C9: after teardown every microphone stream that was captured has been
\* released, exactly once.
C9_TeardownReleases ==
  ~mounted =>
    \A k \in Sessions :
      stream[k] # "none" => (stream[k] = "stopped" /\ releases[k] = 1)

\* C10: a captured frame is sent only while the status is Connected, on a
\* handle that has not been closed.
C10_SendWhileConnected ==
  lastOp = "send" => (status = CONNECTED /\ ~closed[lastSess])

\* C11: a decode failure is not fatal: the step in which a decode fails
\* leaves the status, the error, the handle and its remote session, the
\* playback set and its nodes (no buffer is enqueued), the cursor, the
\* transcript and the turn buffer as they were, so that the messages that
\* arrive later are handled as they would have been.
C11_DecodeFailure ==
  [][ (lastOp' = "decodeFailed" /\ Len(pending') < Len(pending)) =>
        UNCHANGED <<status, error, sessionRef, closed, remote, mounted,
                    sources, audioSources, nextStartTime, transcript,
                    transcriptionBuffer, nMsgs>> ]_vars

\* C11, its case: a payload failed to decode (the agent was marked speaking
\* and no node was created) and a later message was handled: the session is
\* connected, its handle open, and the message's turn is in the transcript.
C11_Witness ==
  /\ lastOp = "onmessage"
  /\ pending = <<>>
  /\ sources = <<>>
  /\ isModelTalking
  /\ transcript # <<>>
  /\ status = CONNECTED
  /\ sessionRef # NoSession
  /\ ~closed[sessionRef]

\* C12: the turn buffer is per session: when a session starts, every earlier
\* session being over or stopped, both of its fields are empty, so that no
\* fragment of an earlier session can be flushed into an entry of the new one.
C12_TurnBufferPerSession ==
  (lastOp = "start" /\ \A k \in Sessions : remote[k] \notin {"requested", "open"})
    => transcriptionBuffer = [user |-> <<>>, model |-> <<>>]

\* The nodes scheduled one after the other: while a node has been neither
\* stopped nor ended, the node enqueued after it starts where it ends, or
\* later at a reading of the device clock that was ahead of the schedule.
BackToBack ==
  \A i \in 1..(Len(sources) - 1) :
    sources[i].state = "started" =>
      /\ sources[i + 1].start >= sources[i].start + sources[i].dur
      /\ sources[i + 1].start > sources[i].start + sources[i].dur =>
           sources[i + 1].start <= outClock
      /\ \A j \in (i + 1)..Len(sources) : sources[j].start # sources[i].start

\* C13: an audio payload's handler raises the cursor to the device clock
\* when the clock is ahead of it and leaves it otherwise; the buffer is
\* scheduled at the cursor and the cursor advanced by its duration; so
\* buffers enqueued with no interruption in between are scheduled back to
\* back from the clock read at the first, with no overlap, no gap while the
\* clock is behind the schedule, and no start time twice.
C13_BackToBack ==
  [][ /\ Len(pending') > Len(pending) =>
           nextStartTime' = Max(nextStartTime, outClock)
      /\ Len(sources') > Len(sources) =>
           /\ sources'[Len(sources')].start = nextStartTime
           /\ \/ nextStartTime' = nextStartTime + sources'[Len(sources')].dur
              \/ nextStartTime' = 0 /\ audioSources' = {}
      /\ BackToBack' ]_vars

\* C13, its case: three buffers of durations 1, 2 and 1 enqueued with the
\* clock at 1 at the first: they are scheduled at 1, 2 and 4.
C13_Witness ==
  /\ Len(sources) = 3
  /\ \A i \in 1..3 : sources[i].state = "started"
  /\ sources[1].start = 1 /\ sources[1].dur = 1
  /\ sources[2].start = 2 /\ sources[2].dur = 2
  /\ sources[3].start = 4
  /\ nextStartTime = 4 + sources[3].dur

\* What an interruption leaves: the playback set empty, every node that was
\* in it stopped, the cursor at zero.
Interrupted ==
  /\ audioSources' = {}
  /\ nextStartTime' = 0
  /\ \A j \in audioSources : sources'[j].state # "started"

\* C14: a handler that applies an interruption stops and removes every node
\* of the playback set and resets the cursor, also when the set is empty; the
\* payload that arrives next raises the reset cursor to the device clock; and
\* a buffer enqueued after an interruption is not scheduled before the
\* device clock of that interruption.
C14_Interruption ==
  [][ /\ \A k \in Sessions, m \in Messages :
           (m.interrupted /\ ~m.audio /\ onmessage(k, m)) => Interrupted
      /\ \A i \in 1..Len(pending), d \in Durations :
           /\ (pending[i].msg.interrupted /\ DecodeSettle(i, TRUE, d)) =>
                Interrupted
           /\ (pending[i].cut = "interrupted" /\ DecodeSettle(i, TRUE, d)) =>
                sources'[Len(sources')].start >= pending[i].cutAt
      /\ (Len(pending') > Len(pending) /\ nextStartTime = 0) =>
           nextStartTime' = outClock ]_vars

\* The steps in which a handler applies an interruption, and those in which
\* stopSession runs.
InterruptStep ==
  \/ \E k \in Sessions, m \in Messages :
       m.interrupted /\ ~m.audio /\ onmessage(k, m)
  \/ \E i \in 1..Len(pending), d \in Durations :
       pending[i].msg.interrupted /\ DecodeSettle(i, TRUE, d)

StopStep == stops' >= 1 /\ outClock' = outClock

C16_ShutdownAsInterrupt ==
  [][ StopStep =>
        /\ sources' = Interrupt(Refs).sources
        /\ audioSources' = Interrupt(Refs).audioSources
        /\ isModelTalking' = Interrupt(Refs).isModelTalking
        /\ nextStartTime' = Interrupt(Refs).nextStartTime ]_vars

\* A suspended handler that has an interruption, a fragment or a
\* turn-complete signal still to apply.
HasLaterEffects(p) ==
  \/ p.msg.interrupted
  \/ p.msg.inputTranscription # NoText
  \/ p.msg.outputTranscription # NoText
  \/ p.msg.turnComplete

\* C17: the messages take effect in arrival order: while the handler of an
\* earlier message is suspended with effects still to apply, a message that
\* arrives changes neither the turn buffer nor the transcript nor the
\* playback set, and no handler suspended after it resumes before it.
C17_ArrivalOrder ==
  [][ \A j \in 1..Len(pending) :
        HasLaterEffects(pending[j]) =>
          /\ \A k \in Sessions, m \in Messages :
               onmessage(k, m) =>
                 UNCHANGED <<transcriptionBuffer, transcript, audioSources,
                             sources>>
          /\ \A i \in (j + 1)..Len(pending), ok \in DecodeOutcomes,
                d \in Durations : ~DecodeSettle(i, ok, d) ]_vars

\* new is old with some text appended to it.
Appended(old, new) ==
  /\ Len(new) >= Len(old)
  /\ SubSeq(new, 1, Len(old)) = old

\* C18: every change of the turn buffer is an append to its fields or the
\* reset of both fields to empty, and when the handler of a turn-complete
\* signal has ended both fields are empty, whether or not an entry was added
\* to the transcript.
C18_TurnBufferChanges ==
  [][ /\ transcriptionBuffer' # transcriptionBuffer =>
           \/ transcriptionBuffer' = [user |-> <<>>, model |-> <<>>]
           \/ /\ Appended(transcriptionBuffer.user, transcriptionBuffer'.user)
              /\ Appended(transcriptionBuffer.model, transcriptionBuffer'.model)
      /\ turns'.ended # turns.ended =>
           transcriptionBuffer' = [user |-> <<>>, model |-> <<>>] ]_vars

\* C19: a payload whose decode was pending when stop() or an interruption ran
\* is not scheduled when its decode settles, and while the status is
\* Disconnected after a stop the active playback set is empty.
C19_NoLateSchedule ==
  [][ /\ \A i \in 1..Len(pending), d \in Durations :
           (pending[i].cut # "none" /\ DecodeSettle(i, TRUE, d)) =>
             UNCHANGED <<sources, audioSources>>
      /\ (stops' >= 1 /\ status' = DISCONNECTED) => audioSources' = {} ]_vars

\* C20: the agent-speaking flag matches the playback queue: it is true while
\* the active playback set is not empty, and false when the set is empty and
\* no payload is pending decode.
C20_TalkingMatchesQueue ==
  /\ audioSources # {} => isModelTalking
  /\ (audioSources = {} /\ pending = <<>>) => ~isModelTalking

====
